---- MODULE Spec2Model ----
(***************************************************************************)
(* Model of poke-portal/src/pokemonData.tsx: the response cache            *)
(* (getCached), the domain mapper (mapToSummary, mapToDetail) and the      *)
(* aggregate store of PokemonProvider (loadList, getSummary, getDetail).   *)
(*                                                                         *)
(* Execution model.  JavaScript runs one task at a time: the code between  *)
(* two suspensions on a pending network call runs to completion, and an    *)
(* await on an already settled promise (a cache hit) resumes in the same   *)
(* task.  The provider is written against React 18 (React.FC with          *)
(* PropsWithChildren and no type argument), whose automatic batching       *)
(* applies all setState calls of one task in one render.  So one action    *)
(* of the model is one task, and the store variables are the state the     *)
(* view layer renders.  An optional value (T | null | undefined) is a      *)
(* sequence of length at most one; a Map or Record is a function whose     *)
(* domain is the set of keys present.                                      *)
(***************************************************************************)
EXTENDS Integers, Sequences, FiniteSets, TLC

None == <<>>
Some(x) == <<x>>

\* a ?? b
Coalesce(a, b) == IF a # None THEN a ELSE b

\* { ...m, [k]: v } and Map.set(k, v)
Put(m, k, v) == [x \in DOMAIN m \cup {k} |-> IF x = k THEN v ELSE m[x]]


(***************************************************************************)
(* Bounds of the model                                                     *)
(***************************************************************************)
\* clock advances the model takes
MaxTicks == 1
\* direct getCached calls (specification SpecCache)
MaxCalls == 3
\* loadList invocations
MaxLoadListCalls == 2
\* getSummary invocations
MaxSummaryCalls == 1
\* getDetail invocations made directly on the store
MaxDetailCalls == 1
\* runs of the DetailPage effect, each making one getDetail invocation
MaxPageEffects == 2
\* length of the type and ability arrays handed to the mapper, and slot range
MaxSlots == 3
\* flavor-text entries of a species handed to the mapper
MaxFlavorEntries == 2

(***************************************************************************)
(* The upstream catalog: what GET returns.  The catalog has two pokemon    *)
(* and two editions of their records (the service may change a record      *)
(* between two fetches), or the service fails.  What the service answers   *)
(* is decided when the response arrives.                                   *)
(***************************************************************************)
Names == <<"bulbasaur", "ivysaur">>
PokemonIds == DOMAIN Names
Editions == {"v1", "v2"}
NetworkError == "Network Error"
NotFoundError == "Request failed with status code 404"
Faults == {NetworkError}
ServerStates == Editions \cup Faults

\* the id a request path segment names: an id in decimal or a name; 0 if none
IdStrings == <<"1", "2">>
Resolve(nameOrId) ==
    IF \E i \in PokemonIds : Names[i] = nameOrId
    THEN CHOOSE i \in PokemonIds : Names[i] = nameOrId
    ELSE IF \E i \in PokemonIds : IdStrings[i] = nameOrId
    THEN CHOOSE i \in PokemonIds : IdStrings[i] = nameOrId
    ELSE 0

Resource(n) == [name |-> n, url |-> n]

RawSprites(id, ed) ==
    IF ed = "v1"
    THEN [front_default |-> Some("front.png"), front_shiny |-> None,
          other |-> Some([official_artwork |-> Some([front_default |-> Some("art.png")]),
                          home |-> Some([front_default |-> Some("home.png"), front_shiny |-> None]),
                          dream_world |-> None])]
    ELSE [front_default |-> Some("front.png"), front_shiny |-> None,
          other |-> Some([official_artwork |-> Some([front_default |-> None]),
                          home |-> None,
                          dream_world |-> Some([front_default |-> Some("dream.svg")])])]

RawTypes(id, ed) ==
    IF ed = "v1"
    THEN << [slot |-> 1, type |-> Resource("grass")], [slot |-> 2, type |-> Resource("poison")] >>
    ELSE << [slot |-> 2, type |-> Resource("grass")], [slot |-> 1, type |-> Resource("poison")] >>

RawAbilities(id, ed) ==
    << [ability |-> Resource("chlorophyll"), is_hidden |-> TRUE, slot |-> 3],
       [ability |-> Resource("overgrow"), is_hidden |-> FALSE, slot |-> 1] >>

RawStats(id, ed) ==
    << [base_stat |-> 45 + id, effort |-> 0, stat |-> Resource("hp")],
       [base_stat |-> 49, effort |-> 0, stat |-> Resource("attack")] >>

\* GET /pokemon/{nameOrId}
RawPokemon(id, ed) ==
    [id |-> id, name |-> Names[id],
     height |-> IF ed = "v1" THEN 7 ELSE 8, weight |-> 69, base_experience |-> 64,
     sprites |-> RawSprites(id, ed), types |-> RawTypes(id, ed),
     abilities |-> RawAbilities(id, ed), stats |-> RawStats(id, ed)]

\* a flavor text is a sequence of characters
FF == "\\f"
LF == "\\n"
CR == "\\r"
RawFlavorTexts(id, ed) ==
    << [flavor_text |-> <<"G", "r", "a", "i", "n", "e">>, language |-> Resource("fr")],
       [flavor_text |-> IF ed = "v1" THEN <<"A", FF, "b", LF>> ELSE <<"A", CR, LF, "b">>,
        language |-> Resource("en")],
       [flavor_text |-> <<"S", "e", "e", "d">>, language |-> Resource("en")] >>

\* GET /pokemon-species/{nameOrId}
RawSpecies(id, ed) ==
    [id |-> id, name |-> Names[id],
     habitat |-> IF id = 1 THEN Some(Resource("grassland")) ELSE None,
     genera |-> IF ed = "v1"
                THEN Some(<< [genus |-> "Graine", language |-> Resource("fr")],
                             [genus |-> "Seed", language |-> Resource("en")] >>)
                ELSE None,
     flavor_text_entries |-> RawFlavorTexts(id, ed),
     is_legendary |-> FALSE, is_mythical |-> (id = 2)]

Min(a, b) == IF a < b THEN a ELSE b

\* GET /pokemon?limit&offset
RawList(limit, offset) ==
    [count |-> Len(Names),
     results |-> [k \in 1..(IF offset >= Len(Names) THEN 0 ELSE Min(limit, Len(Names) - offset))
                    |-> Resource(Names[offset + k])]]

(***************************************************************************)
(* Domain mapper                                                           *)
(***************************************************************************)
\* o?.f for an optional object o and an optional field f
Chain(o, f) == IF o = None THEN None ELSE o[1][f]

\* o?.f for an optional object o and a field f that every such object has
ChainField(o, f) == IF o = None THEN None ELSE Some(o[1][f])

\* mutant: the item's own front_default is preferred to the other sprites
extractSprite_FrontFirst(pokemon) ==
    Coalesce(pokemon.sprites.front_default,
    Coalesce(Chain(Chain(pokemon.sprites.other, "official_artwork"), "front_default"),
    Coalesce(Chain(Chain(pokemon.sprites.other, "home"), "front_default"),
    Coalesce(Chain(Chain(pokemon.sprites.other, "dream_world"), "front_default"), None))))

extractSprite(pokemon) ==
    Coalesce(Chain(Chain(pokemon.sprites.other, "official_artwork"), "front_default"),
    Coalesce(Chain(Chain(pokemon.sprites.other, "home"), "front_default"),
    Coalesce(Chain(Chain(pokemon.sprites.other, "dream_world"), "front_default"),
    Coalesce(pokemon.sprites.front_default, None))))

\* mutant: an element whose slot is already taken is dropped
RECURSIVE InsertBySlot_Dedupe(_, _)
InsertBySlot_Dedupe(x, s) ==
    IF s = <<>> THEN <<x>>
    ELSE IF s[Len(s)].slot = x.slot THEN s
    ELSE IF s[Len(s)].slot < x.slot THEN Append(s, x)
    ELSE Append(InsertBySlot_Dedupe(x, SubSeq(s, 1, Len(s) - 1)), s[Len(s)])

\* Array.prototype.sort with (a, b) => a.slot - b.slot: stable, ascending by slot
RECURSIVE InsertBySlot(_, _)
InsertBySlot(x, s) ==
    IF s = <<>> THEN <<x>>
    ELSE IF s[Len(s)].slot <= x.slot THEN Append(s, x)
    ELSE Append(InsertBySlot(x, SubSeq(s, 1, Len(s) - 1)), s[Len(s)])

RECURSIVE SortBySlot(_)
SortBySlot(s) ==
    IF s = <<>> THEN <<>>
    ELSE InsertBySlot(s[Len(s)], SortBySlot(SubSeq(s, 1, Len(s) - 1)))

mapTypes(types) ==
    LET sorted == SortBySlot(types) IN [k \in DOMAIN sorted |-> sorted[k].type.name]

mapAbilities(abilities) ==
    LET sorted == SortBySlot(abilities)
    IN [k \in DOMAIN sorted |-> [name |-> sorted[k].ability.name, isHidden |-> sorted[k].is_hidden]]

mapStats(stats) ==
    [k \in DOMAIN stats |-> [name |-> stats[k].stat.name, value |-> stats[k].base_stat]]

\* mutant: carriage returns are left in the text
sanitizeFlavorText_KeepsCR(text) ==
    IF text = None THEN None
    ELSE Some([k \in DOMAIN text[1] |-> IF text[1][k] \in {FF, LF} THEN " " ELSE text[1][k]])

\* text?.replace(/\f|\n|\r/g, ' ')
sanitizeFlavorText(text) ==
    IF text = None THEN None
    ELSE Some([k \in DOMAIN text[1] |-> IF text[1][k] \in {FF, LF, CR} THEN " " ELSE text[1][k]])

\* entries.find((entry) => entry.language.name === 'en'): the first such entry, if any
FindEnglish(entries) ==
    IF \E k \in DOMAIN entries : entries[k].language.name = "en"
    THEN Some(entries[CHOOSE k \in DOMAIN entries :
                         /\ entries[k].language.name = "en"
                         /\ \A j \in 1..(k - 1) : entries[j].language.name # "en"])
    ELSE None

extractEnglishFlavor(species) ==
    sanitizeFlavorText(ChainField(FindEnglish(species.flavor_text_entries), "flavor_text"))

extractGenus(species) ==
    ChainField(IF species.genera = None THEN None ELSE FindEnglish(species.genera[1]), "genus")

mapToSummary(pokemon) ==
    [id |-> pokemon.id,
     name |-> pokemon.name,
     sprite |-> extractSprite(pokemon),
     types |-> mapTypes(pokemon.types)]

mapToDetail(pokemon, species) ==
    [id |-> mapToSummary(pokemon).id,
     name |-> mapToSummary(pokemon).name,
     sprite |-> mapToSummary(pokemon).sprite,
     types |-> mapToSummary(pokemon).types,
     height |-> pokemon.height,
     weight |-> pokemon.weight,
     baseExperience |-> pokemon.base_experience,
     abilities |-> mapAbilities(pokemon.abilities),
     stats |-> mapStats(pokemon.stats),
     flavorText |-> extractEnglishFlavor(species),
     habitat |-> Coalesce(ChainField(species.habitat, "name"), None),
     genus |-> Coalesce(extractGenus(species), None),
     isLegendary |-> species.is_legendary,
     isMythical |-> species.is_mythical]

(***************************************************************************)
(* Transport and cache                                                     *)
(***************************************************************************)
DEFAULT_TTL == 1000 * 60 * 5

\* A request is [url, params]: url is the path as a sequence of its pieces,
\* params is absent or a sequence of <<key, value>> pairs in insertion order.
ListRequest(limit, offset) ==
    [url |-> <<"/pokemon">>,
     params |-> Some(<< <<"limit", limit>>, <<"offset", offset>> >>)]
PokemonRequest(nameOrId) == [url |-> <<"/pokemon/", nameOrId>>, params |-> None]
SpeciesRequest(nameOrId) == [url |-> <<"/pokemon-species/", nameOrId>>, params |-> None]

\* JSON.stringify of an object: its members in insertion order, as a sequence
\* of tokens; an undefined member is left out
RECURSIVE StringifyPairs(_)
StringifyPairs(pairs) ==
    IF pairs = <<>> THEN <<>>
    ELSE <<pairs[1][1], ":", ToString(pairs[1][2])>>
         \o (IF Len(pairs) > 1 THEN <<",">> ELSE <<>>)
         \o StringifyPairs(Tail(pairs))

cacheKey(url, params) ==
    <<"{", "url", ":">> \o url
    \o (IF params = None THEN <<>>
        ELSE <<",", "params", ":", "{">> \o StringifyPairs(params[1]) \o <<"}">>)
    \o <<"}">>

KeyOf(req) == cacheKey(req.url, req.params)

ParamValue(params, key) ==
    params[1][CHOOSE k \in DOMAIN params[1] : params[1][k][1] = key][2]

AxiosError(message) == [kind |-> "Error", message |-> message]

\* apiClient.get: the settled value of the request when the response arrives
Serve(req, srv) ==
    IF srv \in Faults THEN [ok |-> FALSE, error |-> AxiosError(srv)]
    ELSE IF req.url = <<"/pokemon">>
    THEN [ok |-> TRUE,
          data |-> RawList(ParamValue(req.params, "limit"), ParamValue(req.params, "offset"))]
    ELSE IF Resolve(req.url[2]) = 0
    THEN [ok |-> FALSE, error |-> AxiosError(NotFoundError)]
    ELSE IF req.url[1] = "/pokemon/"
    THEN [ok |-> TRUE, data |-> RawPokemon(Resolve(req.url[2]), srv)]
    ELSE [ok |-> TRUE, data |-> RawSpecies(Resolve(req.url[2]), srv)]

\* mutant: an entry aged exactly ttl still counts as fresh
Fresh_Inclusive(c, key, ttl, t) == key \in DOMAIN c /\ t - c[key].timestamp <= ttl

\* mutant: the age is compared with the default, not with the call's ttl
Fresh_DefaultTtl(c, key, ttl, t) == key \in DOMAIN c /\ t - c[key].timestamp < DEFAULT_TTL

\* getCached, line 38: the entry is present and younger than ttl
Fresh(c, key, ttl, t) == key \in DOMAIN c /\ t - c[key].timestamp < ttl

\* mutant: an entry already in the table is kept, the first response wins
CacheSet_KeepsExisting(c, key, t, data) ==
    IF key \in DOMAIN c THEN c ELSE Put(c, key, [timestamp |-> t, data |-> data])

\* getCached, line 43
CacheSet(c, key, t, data) == Put(c, key, [timestamp |-> t, data |-> data])

\* mutant: the failure is stored under the key as if it were a payload
CacheAfter_StoreFailure(c, req, t, settled) ==
    CacheSet(c, KeyOf(req), t, IF settled.ok THEN settled.data ELSE settled.error)

\* getCached after the response: the table it leaves
CacheAfter(c, req, t, settled) ==
    IF settled.ok THEN CacheSet(c, KeyOf(req), t, settled.data) ELSE c

(***************************************************************************)
(* State                                                                   *)
(***************************************************************************)
VARIABLES
    now,            \* Date.now()
    ticks,          \* clock advances taken so far
    cache,          \* the module's cache table: key -> [timestamp, data]
    netCalls,       \* apiClient.get calls issued so far
    calls,          \* direct getCached calls (specification SpecCache)
    list,           \* PokemonProvider state, lines 272-278
    totalCount,
    isListLoading,
    listError,
    listParams,
    summariesById,
    detailsById,
    loads,          \* loadList invocations
    sums,           \* getSummary invocations
    dets,           \* getDetail invocations
    page,           \* the state of the DetailPage instance: detail, isLoading, error
    isMounted,      \* the isMounted flag of each run of the DetailPage effect
    mapIn,          \* a raw record handed to a mapper function
    mapOut          \* what the function returned, once applied

cacheVars == <<cache, netCalls>>
envVars == <<now, ticks>>
storeVars == <<list, totalCount, isListLoading, listError, listParams, summariesById, detailsById>>
opVars == <<loads, sums, dets>>
viewVars == <<page, isMounted>>
mapVars == <<mapIn, mapOut>>
vars == <<now, ticks, cache, netCalls, calls, list, totalCount, isListLoading,
          listError, listParams, summariesById, detailsById, loads, sums, dets, page,
          isMounted,
          mapIn, mapOut>>

EmptyMap == [x \in {} |-> x]

\* the clock advances the cache claims need: to just under ttl, and to ttl
TickSteps == {DEFAULT_TTL - 1, DEFAULT_TTL}

Calls == 1..MaxCalls
Loads == 1..MaxLoadListCalls
Sums == 1..MaxSummaryCalls
\* getDetail invocations: the first MaxDetailCalls are made directly on the
\* store, each run of the DetailPage effect makes one
Dets == 1..MaxPageEffects
DirectDets == 1..MaxDetailCalls

NewCall == [pc |-> "new", req |-> PokemonRequest("1"), ttl |-> DEFAULT_TTL, net |-> 0,
            result |-> None]
NewLoad == [pc |-> "new", limit |-> 1000, offset |-> 0, sequential |-> FALSE, count |-> 0,
            items |-> <<>>, outcome |-> "none", committed |-> 0]
NewSum == [pc |-> "new", idOrName |-> "1", result |-> None]
NewDet == [pc |-> "new", idOrName |-> "1", parts |-> <<>>, result |-> None]
\* pages.tsx lines 238-240: the page's own state
NewPage == [detail |-> None, isLoading |-> FALSE, error |-> None]

ProgramStart ==
    /\ now = 0
    /\ ticks = 0
    /\ cache = EmptyMap
    /\ netCalls = 0
    /\ calls = [c \in Calls |-> NewCall]
    /\ list = <<>>
    /\ totalCount = 0
    /\ isListLoading = FALSE
    /\ listError = None
    /\ listParams = [limit |-> 1000, offset |-> 0]
    /\ summariesById = EmptyMap
    /\ detailsById = EmptyMap
    /\ loads = [i \in Loads |-> NewLoad]
    /\ sums = [j \in Sums |-> NewSum]
    /\ dets = [j \in Dets |-> NewDet]
    /\ page = NewPage
    /\ isMounted = [j \in Dets |-> FALSE]

NoInput == [kind |-> "none"]

Init ==
    /\ ProgramStart
    /\ mapIn = NoInput
    /\ mapOut = None

(***************************************************************************)
(* Environment                                                             *)
(***************************************************************************)
Tick(d) ==
    /\ ticks < MaxTicks
    /\ now' = now + d
    /\ ticks' = ticks + 1
    /\ UNCHANGED <<cache, netCalls, calls, storeVars, opVars, viewVars, mapVars>>

(***************************************************************************)
(* getCached called directly (lines 30-45)                                 *)
(***************************************************************************)
CacheRequests == {PokemonRequest("1"), ListRequest(1000, 0), PokemonRequest("missingno")}
Ttls == {DEFAULT_TTL}

\* lines 35-42: a fresh entry is returned at once, otherwise the request goes out
GetCachedCall(c, req, ttl) ==
    /\ calls[c].pc = "new"
    /\ \A b \in 1..(c - 1) : calls[b].pc # "new"
    /\ IF Fresh(cache, KeyOf(req), ttl, now)
       THEN /\ calls' = [calls EXCEPT ![c] = [pc |-> "done", req |-> req, ttl |-> ttl,
                                              net |-> 0,
                                              result |-> Some([ok |-> TRUE,
                                                               data |-> cache[KeyOf(req)].data])]]
            /\ netCalls' = netCalls
       ELSE /\ calls' = [calls EXCEPT ![c] = [pc |-> "net", req |-> req, ttl |-> ttl,
                                              net |-> 1, result |-> None]]
            /\ netCalls' = netCalls + 1
    /\ UNCHANGED <<cache, envVars, viewVars, mapVars, storeVars, opVars>>

\* lines 42-44: the response arrives; a failure is thrown to the caller
GetCachedResponse(c, srv) ==
    /\ calls[c].pc = "net"
    /\ \E settled \in {Serve(calls[c].req, srv)} :
          /\ cache' = CacheAfter(cache, calls[c].req, now, settled)
          /\ calls' = [calls EXCEPT ![c].pc = "done", ![c].result = Some(settled)]
    /\ UNCHANGED <<netCalls, envVars, viewVars, mapVars, storeVars, opVars>>

NextCache ==
    \/ \E d \in TickSteps : Tick(d)
    \/ \E c \in Calls, req \in CacheRequests, ttl \in Ttls : GetCachedCall(c, req, ttl)
    \/ \E c \in Calls, srv \in ServerStates : GetCachedResponse(c, srv)

SpecCache == Init /\ [][NextCache]_vars

\* getCached('/pokemon', { offset, limit }): the parameters of ListRequest,
\* inserted in the other order
ReorderedListRequest(limit, offset) ==
    [url |-> <<"/pokemon">>,
     params |-> Some(<< <<"offset", offset>>, <<"limit", limit>> >>)]

KeyRequests == {ListRequest(1000, 0), ReorderedListRequest(1000, 0), ListRequest(1, 0)}

\* getCached called with parameter objects built in either order
NextKeys ==
    \/ \E d \in TickSteps : Tick(d)
    \/ \E c \in Calls, req \in KeyRequests, ttl \in Ttls : GetCachedCall(c, req, ttl)
    \/ \E c \in Calls, srv \in ServerStates : GetCachedResponse(c, srv)

SpecKeys == Init /\ [][NextKeys]_vars

\* the ttl argument of getCached (line 33): the default and a shorter one
CallTtls == {DEFAULT_TTL - 1, DEFAULT_TTL}
TtlRequests == {PokemonRequest("1"), PokemonRequest("2")}

\* getCached called with a ttl of its own
NextTtl ==
    \/ \E d \in TickSteps : Tick(d)
    \/ \E c \in Calls, req \in TtlRequests, ttl \in CallTtls : GetCachedCall(c, req, ttl)
    \/ \E c \in Calls, srv \in ServerStates : GetCachedResponse(c, srv)

SpecTtl == Init /\ [][NextTtl]_vars

(***************************************************************************)
(* The mapper functions applied to raw records (lines 174-200)             *)
(***************************************************************************)
\* a sprite holder as the service sends it: absent, or with a null or a set URL
SpriteHolders(url) == {None, Some([front_default |-> None]), Some([front_default |-> Some(url)])}

\* every combination of present and absent sprite fields (lines 52-70)
SpriteInputs ==
    {[sprites |-> [front_default |-> f, front_shiny |-> None, other |-> o]] :
        f \in {None, Some("front.png")},
        o \in {None} \cup
              {Some([official_artwork |-> a, home |-> h, dream_world |-> d]) :
                  a \in SpriteHolders("art.png"), h \in SpriteHolders("home.png"),
                  d \in SpriteHolders("dream.svg")}}

\* sequences over S of length at most n
SeqsUpTo(S, n) == UNION {[1..m -> S] : m \in 0..n}

\* type slots and ability slots in every order, slot indices repeated or not
TypeInputs ==
    SeqsUpTo({[slot |-> sl, type |-> Resource(n)] : sl \in 1..MaxSlots, n \in {"grass", "poison"}},
             MaxSlots)
AbilityInputs ==
    SeqsUpTo({[slot |-> sl, ability |-> Resource("overgrow"), is_hidden |-> h] :
                  sl \in 1..MaxSlots, h \in BOOLEAN},
             MaxSlots)

\* flavor texts with and without the three control characters
FlavorTexts ==
    {<<>>, <<"A">>, <<FF>>, <<"A", "b", "c", FF, "d", "e", "f", LF>>, <<CR, LF>>, <<"A", " ", CR>>}
FlavorInputs ==
    {[flavor_text_entries |-> entries] :
        entries \in SeqsUpTo({[flavor_text |-> t, language |-> Resource(l)] :
                                  t \in FlavorTexts, l \in {"en", "fr"}},
                             MaxFlavorEntries)}

InitMapper ==
    /\ ProgramStart
    /\ \/ mapIn \in {[kind |-> "sprite", value |-> v] : v \in SpriteInputs}
       \/ mapIn \in {[kind |-> "types", value |-> v] : v \in TypeInputs}
       \/ mapIn \in {[kind |-> "abilities", value |-> v] : v \in AbilityInputs}
       \/ mapIn \in {[kind |-> "flavor", value |-> v] : v \in FlavorInputs}
    /\ mapOut = None

Returns(kind, value) ==
    /\ mapIn.kind = kind
    /\ mapOut = None
    /\ mapOut' = Some(value)
    /\ UNCHANGED <<mapIn, cacheVars, envVars, calls, storeVars, opVars, viewVars>>

ApplyExtractSprite == Returns("sprite", extractSprite(mapIn.value))
ApplyMapTypes == Returns("types", mapTypes(mapIn.value))
ApplyMapAbilities == Returns("abilities", mapAbilities(mapIn.value))
ApplyExtractEnglishFlavor == Returns("flavor", extractEnglishFlavor(mapIn.value))

NextMapper ==
    \/ ApplyExtractSprite
    \/ ApplyMapTypes
    \/ ApplyMapAbilities
    \/ ApplyExtractEnglishFlavor

SpecMapper == InitMapper /\ [][NextMapper]_vars

(***************************************************************************)
(* Aggregate store: PokemonProvider (lines 271-352)                        *)
(***************************************************************************)
\* the rendered state, as one record, and the setState calls of one task
Store ==
    [list |-> list, totalCount |-> totalCount, isListLoading |-> isListLoading,
     listError |-> listError, listParams |-> listParams,
     summariesById |-> summariesById, detailsById |-> detailsById]

SetStore(st) ==
    \E s \in {st} :
        /\ list' = s.list
        /\ totalCount' = s.totalCount
        /\ isListLoading' = s.isListLoading
        /\ listError' = s.listError
        /\ listParams' = s.listParams
        /\ summariesById' = s.summariesById
        /\ detailsById' = s.detailsById

\* lines 265-269; a thrown value is [kind, message]
extractErrorMessage(error) ==
    IF error.kind = "Error" THEN error.message
    ELSE IF error.kind = "string" THEN error.message
    ELSE "Something went wrong while talking to PokeAPI."

\* mutant: the guard looks at the loading flag instead of the list
ListGuard_Loading(st) == st.isListLoading

\* mutant: no guard
ListGuard_Absent(st) == FALSE

\* mutant: a failed load also closes the guard
ListGuard_OrFailed(st) == Len(st.list) > 0 \/ st.listError # None

\* line 282
ListGuard(st) == Len(st.list) > 0

\* lines 286-288
LoadListBegin(st, limit, offset) ==
    [st EXCEPT !.isListLoading = TRUE,
               !.listError = None,
               !.listParams = [limit |-> limit, offset |-> offset]]

\* mutant: the loop stops one short of the last summary
MergeSummaries_SkipLast(prev, summaries) ==
    [x \in DOMAIN prev \cup {summaries[k].id : k \in 1..(Len(summaries) - 1)} |->
        IF \E k \in 1..(Len(summaries) - 1) : summaries[k].id = x
        THEN summaries[CHOOSE k \in 1..(Len(summaries) - 1) : summaries[k].id = x]
        ELSE prev[x]]

\* lines 297-303: summaries.forEach writes next[summary.id], a later one wins
MergeSummaries(prev, summaries) ==
    [x \in DOMAIN prev \cup {summaries[k].id : k \in DOMAIN summaries} |->
        IF \E k \in DOMAIN summaries : summaries[k].id = x
        THEN summaries[CHOOSE k \in DOMAIN summaries :
                          /\ summaries[k].id = x
                          /\ \A m \in DOMAIN summaries : summaries[m].id = x => m <= k]
        ELSE prev[x]]

\* mutant: the total count is not part of the commit
LoadListSuccess_NoCount(st, summaries, count) ==
    [st EXCEPT !.list = summaries,
               !.summariesById = MergeSummaries(@, summaries)]

\* lines 295-303
LoadListSuccess(st, summaries, count) ==
    [st EXCEPT !.list = summaries,
               !.totalCount = count,
               !.summariesById = MergeSummaries(@, summaries)]

\* mutant: the catch also empties the summary index
LoadListCatch_ResetsIndex(st, error) ==
    [st EXCEPT !.listError = Some(extractErrorMessage(error)), !.summariesById = EmptyMap]

\* lines 304-305
LoadListCatch(st, error) == [st EXCEPT !.listError = Some(extractErrorMessage(error))]

\* mutant: the flag is cleared on the success path only
LoadListFinally_OnSuccess(st) == [st EXCEPT !.isListLoading = (st.listError # None)]

\* lines 306-308
LoadListFinally(st) == [st EXCEPT !.isListLoading = FALSE]

\* mutant: the entry is added to the map the callback captured when it was
\* created, the empty one, instead of the map at the time of the update
GetSummaryMerge_StaleClosure(st, summary) ==
    [st EXCEPT !.summariesById = Put(EmptyMap, summary.id, summary)]

\* line 313
GetSummaryMerge(st, summary) ==
    [st EXCEPT !.summariesById = Put(@, summary.id, summary)]

\* mutant: the detail is not merged into the summary map
GetDetailMerge_DetailOnly(st, detail) ==
    [st EXCEPT !.detailsById = Put(@, detail.id, detail)]

\* lines 319-320
GetDetailMerge(st, detail) ==
    [st EXCEPT !.detailsById = Put(@, detail.id, detail),
               !.summariesById = Put(@, detail.id, detail)]

ListArgs == {[limit |-> 1000, offset |-> 0], [limit |-> 1000, offset |-> Len(Names)]}
SummaryArgs == {"ivysaur"}
DetailArgs == {"1"}

\* One promise handed to Promise.all, with the request behind it: pending on
\* the network, fulfilled with a value, rejected with an error, or (once the
\* caller has returned) nothing but a request that may still be in flight.
Pending(req) == [req |-> req, st |-> "pending", value |-> None]
Got(req, v) == [req |-> req, st |-> "got", value |-> Some(v)]
Failed(req, error) == [req |-> req, st |-> "failed", value |-> Some(error)]

\* getCached up to its await, as its caller sees it (lines 35-42)
Lookup(c, req, t) ==
    IF Fresh(c, KeyOf(req), DEFAULT_TTL, t) THEN Got(req, c[KeyOf(req)].data) ELSE Pending(req)

\* the promise once the response has arrived (lines 42-44)
Settle(req, settled) ==
    IF settled.ok THEN Got(req, settled.data) ELSE Failed(req, settled.error)

PendingIn(items) == {k \in DOMAIN items : items[k].st = "pending"}
FailedIn(items) == {k \in DOMAIN items : items[k].st = "failed"}

\* mutant: waits for every promise and keeps the fulfilled ones (allSettled)
PromiseAll_Settled(items) ==
    IF PendingIn(items) # {} THEN [st |-> "pending"]
    ELSE LET kept == SelectSeq(items, LAMBDA it : it.st = "got")
         IN  [st |-> "fulfilled", value |-> [k \in DOMAIN kept |-> kept[k].value[1]]]

\* Promise.all (lines 238, 291): rejected as soon as one promise is rejected,
\* fulfilled with all the values, in order, once all are fulfilled
PromiseAll(items) ==
    IF FailedIn(items) # {}
    THEN [st |-> "rejected", error |-> items[CHOOSE k \in FailedIn(items) : TRUE].value[1]]
    ELSE IF PendingIn(items) # {} THEN [st |-> "pending"]
    ELSE [st |-> "fulfilled", value |-> [k \in DOMAIN items |-> items[k].value[1]]]

\* what stays of the promises once the caller has returned: the requests
\* still in flight
Leftover(items) ==
    [k \in DOMAIN items |->
        [req |-> items[k].req, st |-> IF items[k].st = "pending" THEN "pending" ELSE "gone",
         value |-> None]]

\* fetchPokemonSummary (lines 232-235): the item promise carries the summary
AsSummary(p) == IF p.st = "got" THEN Got(p.req, mapToSummary(p.value[1])) ELSE p

\* line 292: one fetchPokemonSummary per result, in order
ItemsFor(c, response, t) ==
    [k \in DOMAIN response.results |->
        AsSummary(Lookup(c, PokemonRequest(response.results[k].name), t))]

\* lines 291-308 once the item promises exist or one of them has settled:
\* st is the store as this task has set it so far
LoadListAwaitItems(i, me, st, count, items) ==
    \E all \in {PromiseAll(items)} :
        IF all.st = "fulfilled"
        THEN /\ SetStore(LoadListFinally(LoadListSuccess(st, all.value, count)))
             /\ loads' = [loads EXCEPT ![i] = [me EXCEPT !.pc = "done", !.outcome = "ok",
                                                         !.committed = Len(all.value),
                                                         !.items = Leftover(items)]]
        ELSE IF all.st = "rejected"
        THEN /\ SetStore(LoadListFinally(LoadListCatch(st, all.error)))
             /\ loads' = [loads EXCEPT ![i] = [me EXCEPT !.pc = "done", !.outcome = "failed",
                                                         !.items = Leftover(items)]]
        ELSE /\ SetStore(st)
             /\ loads' = [loads EXCEPT ![i] = [me EXCEPT !.pc = "items", !.count = count,
                                                         !.items = items]]

\* lines 291-293 when the index response is at hand: c is the cache, n the
\* network calls issued so far
LoadListAfterIndex(i, me, st, response, c, n) ==
    \E items \in {ItemsFor(c, response, now)} :
        /\ netCalls' = n + Cardinality(PendingIn(items))
        /\ LoadListAwaitItems(i, me, st, response.count, items)

\* lines 280-290: the guard, the three setState calls and fetchPokemonList
LoadListCall(i, limit, offset) ==
    /\ loads[i].pc = "new"
    /\ \A h \in 1..(i - 1) : loads[h].pc # "new"
    /\ \E me \in {[loads[i] EXCEPT !.limit = limit, !.offset = offset,
                                     !.sequential = \A h \in 1..(i - 1) : loads[h].pc = "done"]},
          found \in {Lookup(cache, ListRequest(limit, offset), now)} :
           IF ListGuard(Store)
           THEN /\ loads' = [loads EXCEPT ![i] = [me EXCEPT !.pc = "done", !.outcome = "noop"]]
                /\ UNCHANGED <<netCalls, storeVars>>
           ELSE IF found.st = "got"
           THEN LoadListAfterIndex(i, me, LoadListBegin(Store, limit, offset),
                                   found.value[1], cache, netCalls)
           ELSE /\ SetStore(LoadListBegin(Store, limit, offset))
                /\ netCalls' = netCalls + 1
                /\ loads' = [loads EXCEPT ![i] = [me EXCEPT !.pc = "index"]]
    /\ UNCHANGED <<cache, envVars, viewVars, mapVars, calls, sums, dets>>

\* line 290 resumes: the index response arrives
LoadListIndexResponse(i, srv) ==
    /\ loads[i].pc = "index"
    /\ \E req \in {ListRequest(loads[i].limit, loads[i].offset)} :
       \E settled \in {Serve(req, srv)} :
       \E c \in {CacheAfter(cache, req, now, settled)} :
           /\ cache' = c
           /\ IF settled.ok
              THEN LoadListAfterIndex(i, loads[i], Store, settled.data, c, netCalls)
              ELSE /\ SetStore(LoadListFinally(LoadListCatch(Store, settled.error)))
                   /\ netCalls' = netCalls
                   /\ loads' = [loads EXCEPT ![i].pc = "done", ![i].outcome = "failed"]
    /\ UNCHANGED <<envVars, viewVars, mapVars, calls, sums, dets>>

\* lines 291-293 resume: the response of item k arrives.  After Promise.all has
\* rejected, the other requests stay in flight and still fill the cache when
\* they arrive.
LoadListItemResponse(i, k, srv) ==
    /\ k \in PendingIn(loads[i].items)
    /\ \E req \in {loads[i].items[k].req} :
       \E settled \in {Serve(req, srv)} :
       \E items \in {[loads[i].items EXCEPT ![k] = AsSummary(Settle(req, settled))]} :
           /\ cache' = CacheAfter(cache, req, now, settled)
           /\ IF loads[i].pc = "done"
              THEN /\ loads' = [loads EXCEPT ![i].items = Leftover(items)]
                   /\ UNCHANGED storeVars
              ELSE LoadListAwaitItems(i, loads[i], Store, loads[i].count, items)
    /\ UNCHANGED <<netCalls, envVars, viewVars, mapVars, calls, sums, dets>>

\* lines 311-315 up to the await
GetSummaryCall(j, idOrName) ==
    /\ sums[j].pc = "new"
    /\ \A h \in 1..(j - 1) : sums[h].pc # "new"
    /\ \E found \in {AsSummary(Lookup(cache, PokemonRequest(idOrName), now))} :
           IF found.st = "got"
           THEN /\ SetStore(GetSummaryMerge(Store, found.value[1]))
                /\ sums' = [sums EXCEPT ![j] = [pc |-> "done", idOrName |-> idOrName,
                                                result |-> Some([ok |-> TRUE, value |-> found.value[1]])]]
                /\ netCalls' = netCalls
           ELSE /\ sums' = [sums EXCEPT ![j] = [pc |-> "net", idOrName |-> idOrName,
                                                result |-> None]]
                /\ netCalls' = netCalls + 1
                /\ UNCHANGED storeVars
    /\ UNCHANGED <<cache, envVars, viewVars, mapVars, calls, loads, dets>>

\* lines 312-314 resume; a failure is thrown to the caller
GetSummaryResponse(j, srv) ==
    /\ sums[j].pc = "net"
    /\ \E req \in {PokemonRequest(sums[j].idOrName)} :
       \E settled \in {Serve(req, srv)} :
       \E found \in {AsSummary(Settle(req, settled))} :
           /\ cache' = CacheAfter(cache, req, now, settled)
           /\ IF found.st = "got"
              THEN /\ SetStore(GetSummaryMerge(Store, found.value[1]))
                   /\ sums' = [sums EXCEPT ![j].pc = "done",
                                 ![j].result = Some([ok |-> TRUE, value |-> found.value[1]])]
              ELSE /\ sums' = [sums EXCEPT ![j].pc = "done", ![j].result = Some(settled)]
                   /\ UNCHANGED storeVars
    /\ UNCHANGED <<netCalls, envVars, viewVars, mapVars, calls, loads, dets>>

\* mutant: a failed getDetail records its message in listError, as loadList does
GetDetailAwait_RecordsError(j, me, parts) ==
    \E all \in {PromiseAll(parts)} :
        IF all.st = "fulfilled"
        THEN \E detail \in {mapToDetail(all.value[1], all.value[2])} :
             /\ SetStore(GetDetailMerge(Store, detail))
             /\ dets' = [dets EXCEPT ![j] = [me EXCEPT !.pc = "done", !.parts = Leftover(parts),
                                                       !.result = Some([ok |-> TRUE, value |-> detail])]]
        ELSE IF all.st = "rejected"
        THEN /\ dets' = [dets EXCEPT ![j] = [me EXCEPT !.pc = "done", !.parts = Leftover(parts),
                                                       !.result = Some([ok |-> FALSE, error |-> all.error])]]
             /\ SetStore(LoadListCatch(Store, all.error))
        ELSE /\ dets' = [dets EXCEPT ![j] = [me EXCEPT !.pc = "net", !.parts = parts]]
             /\ UNCHANGED storeVars

\* lines 237-243 and 318-321 once the two promises exist or one has settled
GetDetailAwait(j, me, parts) ==
    \E all \in {PromiseAll(parts)} :
        IF all.st = "fulfilled"
        THEN \E detail \in {mapToDetail(all.value[1], all.value[2])} :
             /\ SetStore(GetDetailMerge(Store, detail))
             /\ dets' = [dets EXCEPT ![j] = [me EXCEPT !.pc = "done", !.parts = Leftover(parts),
                                                       !.result = Some([ok |-> TRUE, value |-> detail])]]
        ELSE IF all.st = "rejected"
        THEN /\ dets' = [dets EXCEPT ![j] = [me EXCEPT !.pc = "done", !.parts = Leftover(parts),
                                                       !.result = Some([ok |-> FALSE, error |-> all.error])]]
             /\ UNCHANGED storeVars
        ELSE /\ dets' = [dets EXCEPT ![j] = [me EXCEPT !.pc = "net", !.parts = parts]]
             /\ UNCHANGED storeVars

\* lines 317-318 and 238-241: both requests are made before the await
GetDetailCall(j, idOrName) ==
    /\ dets[j].pc = "new"
    /\ \A h \in 1..(j - 1) : dets[h].pc # "new"
    /\ \E parts \in {<< Lookup(cache, PokemonRequest(idOrName), now),
                          Lookup(cache, SpeciesRequest(idOrName), now) >>} :
           /\ netCalls' = netCalls + Cardinality(PendingIn(parts))
           /\ GetDetailAwait(j, [dets[j] EXCEPT !.idOrName = idOrName], parts)
    /\ UNCHANGED <<cache, envVars, calls, loads, sums>>

\* line 238 resumes: the response of one of the two requests arrives
GetDetailResponse(j, k, srv) ==
    /\ k \in PendingIn(dets[j].parts)
    /\ \E req \in {dets[j].parts[k].req} :
       \E settled \in {Serve(req, srv)} :
       \E parts \in {[dets[j].parts EXCEPT ![k] = Settle(req, settled)]} :
           /\ cache' = CacheAfter(cache, req, now, settled)
           /\ IF dets[j].pc = "done"
              THEN /\ dets' = [dets EXCEPT ![j].parts = Leftover(parts)]
                   /\ UNCHANGED storeVars
              ELSE GetDetailAwait(j, dets[j], parts)
    /\ UNCHANGED <<netCalls, envVars, calls, loads, sums>>

(***************************************************************************)
(* DetailPage (pages.tsx lines 233-269), the caller of getDetail           *)
(***************************************************************************)
\* pages.tsx lines 249-250: the effect starts
DetailPageBegin(p) == [p EXCEPT !.isLoading = TRUE, !.error = None]

\* mutant: the handlers do not look at isMounted
DetailPageSettled_Unguarded(p, mounted, result) ==
    IF result.ok THEN [p EXCEPT !.detail = Some(result.value), !.isLoading = FALSE]
    ELSE [p EXCEPT !.error = Some(result.error.message), !.detail = None, !.isLoading = FALSE]

\* mutant: only the then handler looks at isMounted, catch and finally do not
DetailPageSettled_ThenOnly(p, mounted, result) ==
    IF result.ok THEN [p EXCEPT !.detail = IF mounted THEN Some(result.value) ELSE @,
                                !.isLoading = FALSE]
    ELSE [p EXCEPT !.error = Some(result.error.message), !.detail = None, !.isLoading = FALSE]

\* pages.tsx lines 253-264: then, catch and finally of the getDetail promise;
\* mounted is the isMounted of the effect run that made the call
DetailPageSettled(p, mounted, result) ==
    IF ~mounted THEN p
    ELSE IF result.ok THEN [p EXCEPT !.detail = Some(result.value), !.isLoading = FALSE]
    ELSE [p EXCEPT !.error = Some(IF result.error.kind = "Error" THEN result.error.message
                                  ELSE "Unable to load Pokemon details right now."),
                   !.detail = None, !.isLoading = FALSE]

\* the page after a step of the getDetail call of effect run j: the handlers
\* run in the task in which the promise settles
DetailPageAfter(j, p, mounted) ==
    IF dets[j].pc # "done" /\ dets'[j].pc = "done"
    THEN DetailPageSettled(p, mounted, dets'[j].result[1])
    ELSE p

\* pages.tsx lines 242-269: the effect runs for the route parameter, on mount
\* (j = 1) or because the parameter changed while the page is mounted: then
\* the cleanup of the previous run is called first, and the page keeps its state
DetailPageEffect(j, idOrName) ==
    /\ j > 1 => (isMounted[j - 1] /\ idOrName # dets[j - 1].idOrName)
    /\ GetDetailCall(j, idOrName)
    /\ isMounted' = [h \in Dets |-> h = j]
    /\ page' = DetailPageAfter(j, DetailPageBegin(page), TRUE)
    /\ UNCHANGED mapVars

\* a response of the getDetail call of effect run j arrives
DetailPageResponse(j, k, srv) ==
    /\ GetDetailResponse(j, k, srv)
    /\ page' = DetailPageAfter(j, page, isMounted[j])
    /\ UNCHANGED <<isMounted, mapVars>>

\* pages.tsx lines 266-268: the effect's cleanup, when the page unmounts
DetailPageCleanup(j) ==
    /\ isMounted[j]
    /\ isMounted' = [isMounted EXCEPT ![j] = FALSE]
    /\ UNCHANGED <<cacheVars, envVars, calls, storeVars, opVars, page, mapVars>>

LoadListStep ==
    \/ \E i \in Loads, a \in ListArgs : LoadListCall(i, a.limit, a.offset)
    \/ \E i \in Loads, srv \in ServerStates : LoadListIndexResponse(i, srv)
    \/ \E i \in Loads, k \in PokemonIds, srv \in ServerStates : LoadListItemResponse(i, k, srv)

\* the three store operations, overlapping, within one ttl of the cache
Next ==
    \/ LoadListStep
    \/ \E j \in Sums, a \in SummaryArgs : GetSummaryCall(j, a)
    \/ \E j \in Sums, srv \in ServerStates : GetSummaryResponse(j, srv)
    \/ \E j \in DirectDets, a \in DetailArgs : GetDetailCall(j, a) /\ UNCHANGED <<viewVars, mapVars>>
    \/ \E j \in DirectDets, k \in {1, 2}, srv \in ServerStates :
          GetDetailResponse(j, k, srv) /\ UNCHANGED <<viewVars, mapVars>>

\* loadList alone, with cache entries expiring between and during the calls
NextList ==
    \/ Tick(DEFAULT_TTL)
    \/ LoadListStep

Spec == Init /\ [][Next]_vars

SpecList == Init /\ [][NextList]_vars

\* route parameters of the detail page: an id, a name, a name the catalog lacks
PageArgs == {"1", "ivysaur", "missingno"}

\* one DetailPage instance and getSummary: the route parameter changes and the
\* page unmounts at any moment
NextPage ==
    \/ \E j \in Dets, a \in PageArgs : DetailPageEffect(j, a)
    \/ \E j \in Dets, k \in {1, 2}, srv \in ServerStates : DetailPageResponse(j, k, srv)
    \/ \E j \in Dets : DetailPageCleanup(j)
    \/ \E j \in Sums, a \in SummaryArgs : GetSummaryCall(j, a)
    \/ \E j \in Sums, srv \in ServerStates : GetSummaryResponse(j, srv)

SpecPage == Init /\ [][NextPage]_vars

\* the response of some request in flight arrives
LoadListResponse ==
    \/ \E i \in Loads, srv \in ServerStates : LoadListIndexResponse(i, srv)
    \/ \E i \in Loads, k \in PokemonIds, srv \in ServerStates : LoadListItemResponse(i, k, srv)

\* every network call eventually returns or fails: while requests are in
\* flight, one of them is answered
FairSpecList == SpecList /\ WF_vars(LoadListResponse)

(***************************************************************************)
(* App and ListPage: the headings they render (App.tsx lines 7-22,         *)
(* pages.tsx lines 5-9 and 52-125).  A text is a sequence of characters.   *)
(***************************************************************************)
LowerCase == <<"a", "b", "c", "d", "e", "f", "g", "h", "i", "j", "k", "l", "m", "n", "o", "p", "q", "r", "s", "t", "u", "v", "w", "x", "y", "z">>
UpperCase == <<"A", "B", "C", "D", "E", "F", "G", "H", "I", "J", "K", "L", "M", "N", "O", "P", "Q", "R", "S", "T", "U", "V", "W", "X", "Y", "Z">>
Letter(c, alphabet) == CHOOSE k \in DOMAIN alphabet : alphabet[k] = c
toUpperCase(c) == IF \E k \in DOMAIN LowerCase : LowerCase[k] = c
                  THEN UpperCase[Letter(c, LowerCase)] ELSE c
toLowerCase(c) == IF \E k \in DOMAIN UpperCase : UpperCase[k] = c
                  THEN LowerCase[Letter(c, UpperCase)] ELSE c

\* the characters of the names in the catalog
NameText == [bulbasaur |-> <<"b", "u", "l", "b", "a", "s", "a", "u", "r">>, ivysaur |-> <<"i", "v", "y", "s", "a", "u", "r">>]

\* pages.tsx lines 5-9: split at '-', capitalise each segment, join with ' '
formatPokemonName(name) ==
    [k \in DOMAIN name |->
        IF name[k] = "-" THEN " "
        ELSE IF k = 1 \/ name[k - 1] = "-" THEN toUpperCase(name[k])
        ELSE name[k]]

\* App.tsx line 11
AppHeading == <<"P", "o", "k", "e", "m", "o", "n", " ", "A", "p", "p">>
\* pages.tsx line 55
ListPageHeading == <<"P", "o", "k", "e", "m", "o", "n", " ", "L", "i", "s", "t">>

\* the headings of the App rendered at the list route with an empty search:
\* the layout's h1, the page's h2 and one h3 per list member
RenderedHeadings ==
    {AppHeading, ListPageHeading}
    \cup {formatPokemonName(NameText[list[k].name]) : k \in DOMAIN list}

\* App.test.tsx line 7: getByRole('heading', { name: /pokemon query/i })
HeadingPattern == <<"p", "o", "k", "e", "m", "o", "n", " ", "q", "u", "e", "r", "y">>

\* a case-insensitive regular expression made of literal characters matches
\* a text that contains them
MatchesIgnoringCase(text, pattern) ==
    \E start \in 0..(Len(text) - Len(pattern)) :
        \A k \in DOMAIN pattern : toLowerCase(text[start + k]) = toLowerCase(pattern[k])

(***************************************************************************)
(* Claims about the cache (specification SpecCache)                        *)
(***************************************************************************)
CallStarts(c) == calls[c].pc = "new" /\ calls'[c].pc # "new"
CallSettles(c) == calls[c].pc = "net" /\ calls'[c].pc = "done"

\* C1: a getCached call that finds an entry for its key younger than ttl makes
\* no network call and returns the payload the entry's writer returned (the
\* writer stores exactly what it returns, stamped with the arrival time); a
\* call that finds the entry aged ttl or more makes exactly one network call.
C1_HitWithinTtlMissAfter ==
    [][\A c \in Calls :
        /\ CallStarts(c) =>
             LET key == KeyOf(calls'[c].req)
                 ttl == calls'[c].ttl
             IN  /\ (key \in DOMAIN cache /\ now - cache[key].timestamp < ttl) =>
                       /\ netCalls' = netCalls
                       /\ calls'[c].pc = "done"
                       /\ calls'[c].result = Some([ok |-> TRUE, data |-> cache[key].data])
                       /\ cache' = cache
                 /\ (key \in DOMAIN cache /\ now - cache[key].timestamp >= ttl) =>
                       /\ netCalls' = netCalls + 1
                       /\ calls'[c].pc = "net"
        /\ (CallSettles(c) /\ calls'[c].result[1].ok) =>
             cache'[KeyOf(calls[c].req)] = [timestamp |-> now, data |-> calls'[c].result[1].data]
      ]_vars

\* a first call fetched, a second was served from the table with the same
\* payload, and a third, after the entry expired, fetched again
C1_Witness ==
    /\ \A c \in Calls : calls[c].pc = "done" /\ calls[c].req = calls[1].req /\ calls[c].result[1].ok
    /\ calls[1].net = 1 /\ calls[2].net = 0 /\ calls[3].net = 1
    /\ calls[2].result = calls[1].result
    /\ calls[3].result # calls[1].result
    /\ netCalls = 2

\* C7: when the network call of getCached fails, the caller gets the
\* transport's failure as it is and the cache table is unchanged.
C7_FailureLeavesCache ==
    [][\A c \in Calls :
        (CallSettles(c) /\ ~calls'[c].result[1].ok) =>
            /\ cache' = cache
            /\ \E srv \in ServerStates : calls'[c].result = Some(Serve(calls[c].req, srv))
            /\ calls'[c].result[1].error.message \in Faults \cup {NotFoundError}
      ]_vars

\* a call failed while the table held an (expired) entry for its key, which is
\* still the entry of the earlier successful call
C7_Witness ==
    \E b, c \in Calls :
        /\ b < c
        /\ calls[b].pc = "done" /\ calls[b].result[1].ok /\ calls[b].net = 1
        /\ calls[c].pc = "done" /\ ~calls[c].result[1].ok
        /\ calls[c].req = calls[b].req
        /\ KeyOf(calls[c].req) \in DOMAIN cache
        /\ cache[KeyOf(calls[c].req)].data = calls[b].result[1].data

(***************************************************************************)
(* Claims about loadList (specification SpecList)                          *)
(***************************************************************************)
LoadStarts(i) == loads[i].pc = "new" /\ loads'[i].pc # "new"
LoadEnds(i) == loads[i].pc # "done" /\ loads'[i].pc = "done"
LoadIsNoOp(i) ==
    /\ loads'[i].pc = "done" /\ loads'[i].outcome = "noop"
    /\ UNCHANGED storeVars
    /\ UNCHANGED cacheVars
\* invocation i started after invocation i - 1 had returned, which itself ran
\* with no other invocation in progress
InSequence(i) == i > 1 /\ loads[i - 1].pc = "done" /\ loads[i - 1].sequential
                       /\ \A h \in 1..(i - 1) : loads[h].pc = "done"

\* C2 as stated: a loadList call made after an earlier call that started with
\* an empty list has finished is a no-op making no network call.
C2_AsStated ==
    [][\A i \in Loads :
        (LoadStarts(i) /\ InSequence(i) /\ loads[i - 1].outcome # "noop") => LoadIsNoOp(i)
      ]_vars

\* C2 amended: a loadList call made after an earlier call has finished with a
\* non-empty list is a no-op: no network call, no cache or store change.
C2_SecondCallAfterLoadedIsNoOp ==
    [][\A i \in Loads :
        (LoadStarts(i) /\ InSequence(i)
            /\ loads[i - 1].outcome = "ok" /\ loads[i - 1].committed > 0) => LoadIsNoOp(i)
      ]_vars

\* the first call loaded the list over the network, the second returned at once
C2_Witness ==
    /\ loads[1].pc = "done" /\ loads[1].outcome = "ok" /\ loads[1].committed = Len(Names)
    /\ loads[2].pc = "done" /\ loads[2].sequential /\ loads[2].outcome = "noop"
    /\ netCalls = 1 + Len(Names)
    /\ Len(list) = Len(Names)

\* C3: loadList invoked while the list is non-empty returns without a network
\* call and without changing any store field.
C3_GuardedCallChangesNothing ==
    [][\A i \in Loads :
        (LoadStarts(i) /\ Len(list) > 0) =>
            /\ loads'[i].pc = "done"
            /\ netCalls' = netCalls
            /\ cache' = cache
            /\ list' = list /\ totalCount' = totalCount /\ isListLoading' = isListLoading
            /\ listError' = listError /\ listParams' = listParams
            /\ summariesById' = summariesById /\ detailsById' = detailsById
      ]_vars

\* a call with other parameters than the load that filled the list returned
\* at once, after the cache entries had expired
C3_Witness ==
    \E i \in Loads :
        /\ loads[i].outcome = "noop"
        /\ Len(list) > 0
        /\ [limit |-> loads[i].limit, offset |-> loads[i].offset] # listParams
        /\ now >= DEFAULT_TTL

\* the list is the whole result of one index response
IsWholeLoad(l) ==
    \E a \in ListArgs :
        LET results == RawList(a.limit, a.offset).results
        IN  /\ Len(l) = Len(results)
            /\ \A k \in DOMAIN results : l[k].name = results[k].name

\* C4: the step in which a loadList fails on an item fetch leaves the list as
\* it was and sets listError; and the list never holds part of a load.
C4_FailedLoadCommitsNothing ==
    /\ [][\A i \in Loads :
            (loads[i].pc = "items" /\ loads'[i].pc = "done" /\ loads'[i].outcome = "failed") =>
                /\ list' = list
                /\ listError' # None
         ]_vars
    /\ [](list # <<>> => IsWholeLoad(list))

\* a load failed on one item after another item had arrived; the list is empty
\* and the error is set
C4_Witness ==
    \E i \in Loads :
        /\ loads[i].pc = "done" /\ loads[i].outcome = "failed"
        /\ \E k \in DOMAIN loads[i].items : KeyOf(loads[i].items[k].req) \in DOMAIN cache
        /\ list = <<>>
        /\ listError = Some(NetworkError)

\* C6: a loadList that has passed the guard returns, and the step in which it
\* returns clears isListLoading, whether the load succeeded or failed.
C6_LoadingFlagCleared ==
    /\ \A i \in Loads : (loads[i].pc \in {"index", "items"}) ~> (loads[i].pc = "done" /\ ~isListLoading)
    /\ [][\A i \in Loads : (LoadEnds(i) /\ loads'[i].outcome # "noop") => ~isListLoading']_vars

\* one load ended in failure and one in success, and the flag is down
C6_Witness ==
    /\ \E i \in Loads : loads[i].pc = "done" /\ loads[i].outcome = "failed"
    /\ \E i \in Loads : loads[i].pc = "done" /\ loads[i].outcome = "ok"
    /\ ~isListLoading

Phase ==
    IF isListLoading THEN "Loading"
    ELSE IF list # <<>> THEN "Ready"
    ELSE IF listError # None THEN "Failed"
    ELSE "Idle"

\* C8 as stated: once a loadList has ended in Ready or in Failed, no later
\* loadList call passes the guard.
C8_AsStated ==
    [][\A i \in Loads :
        (LoadStarts(i) /\ Phase \in {"Ready", "Failed"}) => loads'[i].outcome = "noop"
      ]_vars

\* C8 amended: Loading is entered only from Idle or Failed, by a loadList call;
\* Ready and Failed are entered only by a loadList returning; a call made in
\* Ready is a no-op, a call made in Failed passes the guard.
C8_ReadyTerminalFailedNot ==
    [][/\ (Phase' = "Loading" /\ Phase # "Loading") =>
              /\ Phase \in {"Idle", "Failed"}
              /\ \E i \in Loads : LoadStarts(i)
       /\ (Phase' \in {"Ready", "Failed"} /\ Phase' # Phase) => \E i \in Loads : LoadEnds(i)
       /\ \A i \in Loads :
              /\ (LoadStarts(i) /\ Phase = "Ready") => (loads'[i].outcome = "noop" /\ Phase' = "Ready")
              /\ (LoadStarts(i) /\ Phase = "Failed") => loads'[i].outcome # "noop"
      ]_vars

\* a first load failed, a second call made after it loaded the list
C8_Witness ==
    /\ loads[1].pc = "done" /\ loads[1].outcome = "failed"
    /\ loads[2].pc = "done" /\ loads[2].sequential /\ loads[2].outcome = "ok"
    /\ Phase = "Ready"

(***************************************************************************)
(* Claims about the store (specification Spec)                             *)
(***************************************************************************)
DetailSucceeds(j) == dets[j].pc # "done" /\ dets'[j].pc = "done" /\ dets'[j].result[1].ok
LoadSucceeds(i) == LoadEnds(i) /\ loads'[i].outcome = "ok"
Agree(summary, detail) ==
    /\ summary.id = detail.id
    /\ summary.name = detail.name
    /\ summary.sprite = detail.sprite
    /\ summary.types = detail.types

\* C5: in the state a successful getDetail leaves, detailsById and
\* summariesById both have an entry under the detail's id, and the two agree
\* on id, name, sprite and types, whatever the summary map held before.
C5_DetailImpliesSummary ==
    [][\A j \in Dets :
        DetailSucceeds(j) =>
            LET id == dets'[j].result[1].value.id
            IN  /\ id \in DOMAIN detailsById' /\ id \in DOMAIN summariesById'
                /\ detailsById'[id] = dets'[j].result[1].value
                /\ Agree(summariesById'[id], detailsById'[id])
      ]_vars

\* a load had stored a summary of the item with another sprite and other
\* types; the getDetail that succeeded after it replaced that summary
C5_Witness ==
    \E j \in Dets, k \in DOMAIN list :
        /\ dets[j].pc = "done" /\ dets[j].result[1].ok
        /\ list[k].id = dets[j].result[1].value.id
        /\ ~Agree(list[k], dets[j].result[1].value)
        /\ Agree(summariesById[list[k].id], detailsById[list[k].id])

\* C9: every step is a whole commit or none of it: a step changes list or
\* totalCount only if a loadList succeeds in it, and then list, totalCount and
\* the summary index change together; a step changes detailsById only if a
\* getDetail succeeds in it, and then the same entry is in both maps.
C9_CommitsAreWhole ==
    [][/\ \A i \in Loads :
            LoadSucceeds(i) =>
                /\ Len(list') = loads'[i].committed
                /\ totalCount' = RawList(loads'[i].limit, loads'[i].offset).count
                /\ \A k \in DOMAIN list' :
                      /\ list'[k].id \in DOMAIN summariesById'
                      /\ summariesById'[list'[k].id] = list'[k]
       /\ (list' # list \/ totalCount' # totalCount) => \E i \in Loads : LoadSucceeds(i)
       /\ \A j \in Dets :
            DetailSucceeds(j) =>
                LET detail == dets'[j].result[1].value
                IN  /\ detail.id \in DOMAIN detailsById' /\ detailsById'[detail.id] = detail
                    /\ detail.id \in DOMAIN summariesById' /\ summariesById'[detail.id] = detail
       /\ detailsById' # detailsById => \E j \in Dets : DetailSucceeds(j)
       /\ summariesById' # summariesById =>
             \/ \E i \in Loads : LoadSucceeds(i)
             \/ \E j \in Dets : DetailSucceeds(j)
             \/ \E j \in Sums : sums[j].pc # "done" /\ sums'[j].pc = "done" /\ sums'[j].result[1].ok
      ]_vars

\* a load and a getDetail have both committed
C9_Witness ==
    /\ \E i \in Loads : loads[i].pc = "done" /\ loads[i].outcome = "ok" /\ loads[i].committed = Len(Names)
    /\ \E j \in Dets : dets[j].pc = "done" /\ dets[j].result[1].ok
    /\ Len(list) = Len(Names) /\ totalCount = Len(Names)
    /\ DOMAIN detailsById # {}

\* C10: every member of list is in summariesById under its id, and every
\* entry of summariesById and of detailsById is stored under its own id.
C10_MapsKeyedById ==
    /\ \A k \in DOMAIN list : list[k].id \in DOMAIN summariesById
    /\ \A x \in DOMAIN summariesById : summariesById[x].id = x
    /\ \A x \in DOMAIN detailsById : detailsById[x].id = x

\* the list is loaded, and a getSummary by name and a getDetail by id have
\* merged their entries
C10_Witness ==
    /\ Len(list) = Len(Names)
    /\ \E j \in Sums : sums[j].pc = "done" /\ sums[j].result[1].ok
    /\ \E j \in Dets : dets[j].pc = "done" /\ dets[j].result[1].ok
    /\ DOMAIN summariesById = PokemonIds
    /\ DOMAIN detailsById # {}

(***************************************************************************)
(* Claims about the detail page (specification SpecPage)                   *)
(***************************************************************************)
\* the getDetail of effect run j settles in this step, after the run's cleanup
LateCompletion(j) == ~isMounted[j] /\ dets[j].pc = "net" /\ dets'[j].pc = "done"

\* C11 as stated: a getDetail completion that arrives after its page was torn
\* down leaves summariesById and detailsById unchanged.
C11_AsStated ==
    [][\A j \in Dets :
        LateCompletion(j) => (summariesById' = summariesById /\ detailsById' = detailsById)
      ]_vars

\* C11 amended: a getDetail completion that arrives after its page was torn
\* down leaves the page's own state (detail, error, isLoading) unchanged; the
\* store does no cancellation: a successful late completion still merges the
\* detail into detailsById and summariesById, a failed one changes no store field.
C11_LateResultSkipsPageNotStore ==
    [][\A j \in Dets :
        LateCompletion(j) =>
            /\ page' = page
            /\ dets'[j].result[1].ok =>
                  LET detail == dets'[j].result[1].value
                  IN  /\ detail.id \in DOMAIN detailsById' /\ detailsById'[detail.id] = detail
                      /\ detail.id \in DOMAIN summariesById' /\ summariesById'[detail.id] = detail
            /\ ~dets'[j].result[1].ok => UNCHANGED storeVars
      ]_vars

\* the page was torn down while loading, the detail arrived afterwards: the
\* page never showed it, the store holds it
C11_Witness ==
    \E j \in Dets :
        /\ dets[j].pc = "done" /\ dets[j].result[1].ok
        /\ \A h \in Dets : ~isMounted[h]
        /\ page.isLoading /\ page.detail = None
        /\ dets[j].result[1].value.id \in DOMAIN detailsById
        /\ dets[j].result[1].value.id \in DOMAIN summariesById

(***************************************************************************)
(* Claims about the cache key (specification SpecKeys)                     *)
(***************************************************************************)
\* the same endpoint and the same key/value pairs, in whatever order
SameRequest(r1, r2) ==
    /\ r1.url = r2.url
    /\ (r1.params = None) = (r2.params = None)
    /\ r1.params # None =>
          {r1.params[1][k] : k \in DOMAIN r1.params[1]} = {r2.params[1][k] : k \in DOMAIN r2.params[1]}

\* C12 as stated: requests with the same endpoint and the same key/value pairs
\* have the same cache key whatever the insertion order, so a call made within
\* ttl of the entry an earlier such call stored is served from that entry
\* without a network call.
C12_AsStated ==
    [][\A c \in Calls, b \in Calls :
        (/\ CallStarts(c)
         /\ calls[b].pc = "done" /\ calls[b].net = 1 /\ calls[b].result[1].ok
         /\ SameRequest(calls'[c].req, calls[b].req)
         /\ now - cache[KeyOf(calls[b].req)].timestamp < calls'[c].ttl)
        => /\ KeyOf(calls'[c].req) = KeyOf(calls[b].req)
           /\ netCalls' = netCalls
           /\ calls'[c].result = Some([ok |-> TRUE, data |-> cache[KeyOf(calls[b].req)].data])
      ]_vars

(***************************************************************************)
(* Claims about failures of getSummary and getDetail (specification Spec)  *)
(***************************************************************************)
SummaryFails(j) == sums[j].pc # "done" /\ sums'[j].pc = "done" /\ ~sums'[j].result[1].ok
DetailFails(j) == dets[j].pc # "done" /\ dets'[j].pc = "done" /\ ~dets'[j].result[1].ok
\* the errors the transport raises
TransportErrors == {AxiosError(m) : m \in Faults \cup {NotFoundError}}
\* a detail built from both records of item x
IsWholeDetail(x, detail) ==
    \E e1 \in Editions, e2 \in Editions : detail = mapToDetail(RawPokemon(x, e1), RawSpecies(x, e2))

\* C13: the step in which getSummary or getDetail fails hands the caller the
\* transport's error as it is and changes no store field; every entry of
\* detailsById is built from both the item record and the species record.
C13_FailureCommitsNothing ==
    /\ [][/\ \A j \in Sums :
               SummaryFails(j) =>
                   /\ sums'[j].result[1].error \in TransportErrors
                   /\ summariesById' = summariesById /\ detailsById' = detailsById
                   /\ listError' = listError /\ isListLoading' = isListLoading
                   /\ list' = list /\ totalCount' = totalCount /\ listParams' = listParams
          /\ \A j \in Dets :
               DetailFails(j) =>
                   /\ dets'[j].result[1].error \in TransportErrors
                   /\ summariesById' = summariesById /\ detailsById' = detailsById
                   /\ listError' = listError /\ isListLoading' = isListLoading
                   /\ list' = list /\ totalCount' = totalCount /\ listParams' = listParams
         ]_vars
    /\ [](\A x \in DOMAIN detailsById : IsWholeDetail(x, detailsById[x]))

\* getDetail failed on the species fetch after its item fetch had succeeded
\* and been cached, while a loadList was in progress; no detail was stored
C13_Witness ==
    \E j \in Dets :
        /\ dets[j].pc = "done" /\ ~dets[j].result[1].ok
        /\ KeyOf(PokemonRequest(dets[j].idOrName)) \in DOMAIN cache
        /\ KeyOf(SpeciesRequest(dets[j].idOrName)) \notin DOMAIN cache
        /\ detailsById = EmptyMap
        /\ isListLoading /\ listError = None

(***************************************************************************)
(* Claims about the mapper functions (specification SpecMapper)            *)
(***************************************************************************)
\* the URL a sprite holder of the record carries, if the holder is there
HeldUrl(pokemon, holder) ==
    IF pokemon.sprites.other = None THEN None
    ELSE IF pokemon.sprites.other[1][holder] = None THEN None
    ELSE pokemon.sprites.other[1][holder][1].front_default

\* the four candidates in the order of precedence
SpriteCandidates(pokemon) ==
    << HeldUrl(pokemon, "official_artwork"), HeldUrl(pokemon, "home"),
       HeldUrl(pokemon, "dream_world"), pokemon.sprites.front_default >>

FirstPresent(candidates) ==
    IF \A k \in DOMAIN candidates : candidates[k] = None THEN None
    ELSE candidates[CHOOSE k \in DOMAIN candidates :
                       candidates[k] # None /\ \A h \in 1..(k - 1) : candidates[h] = None]

\* C14: extractSprite returns the first present URL in the order official
\* artwork, home, dream world, front_default, and absent when none is present.
C14_SpritePrecedence ==
    (mapIn.kind = "sprite" /\ mapOut # None) =>
        mapOut[1] = FirstPresent(SpriteCandidates(mapIn.value))

\* the official-artwork holder is there with a null URL, home and front_default
\* are set: the home URL is returned
C14_Witness ==
    /\ mapIn.kind = "sprite" /\ mapOut # None
    /\ mapIn.value.sprites.other # None
    /\ mapIn.value.sprites.other[1].official_artwork = Some([front_default |-> None])
    /\ HeldUrl(mapIn.value, "home") # None
    /\ mapIn.value.sprites.front_default # None
    /\ mapOut[1] = Some("home.png")

\* out lists every element of slots once, in an order of ascending slot index:
\* out[k] is the image of the element picked k-th
IsSortedPick(slots, out, images) ==
    /\ Len(out) = Len(slots)
    /\ \E pick \in [DOMAIN slots -> DOMAIN slots] :
          /\ \A a, b \in DOMAIN slots : a # b => pick[a] # pick[b]
          /\ \A a, b \in DOMAIN slots : a < b => slots[pick[a]].slot <= slots[pick[b]].slot
          /\ \A k \in DOMAIN slots : out[k] = images[pick[k]]

\* C15: mapTypes and mapAbilities return one element per input slot, duplicates
\* kept, in ascending order of slot index, whatever the input order.
C15_SlotsSortedAscending ==
    /\ (mapIn.kind = "types" /\ mapOut # None) =>
          IsSortedPick(mapIn.value, mapOut[1],
                       [k \in DOMAIN mapIn.value |-> mapIn.value[k].type.name])
    /\ (mapIn.kind = "abilities" /\ mapOut # None) =>
          IsSortedPick(mapIn.value, mapOut[1],
                       [k \in DOMAIN mapIn.value |->
                           [name |-> mapIn.value[k].ability.name,
                            isHidden |-> mapIn.value[k].is_hidden]])

\* three type slots given out of order, two of them with the same slot index
\* and the same type: three names are returned
C15_Witness ==
    /\ mapIn.kind = "types" /\ mapOut # None
    /\ Len(mapIn.value) = MaxSlots
    /\ mapIn.value[1].slot > mapIn.value[2].slot
    /\ mapIn.value[1] = mapIn.value[Len(mapIn.value)]
    /\ Len(mapOut[1]) = Len(mapIn.value)
    /\ mapOut[1][1] = mapIn.value[2].type.name

\* the positions of the entries tagged "en"
EnglishEntries(entries) == {k \in DOMAIN entries : entries[k].language.name = "en"}

\* clean is text with each form feed, newline and carriage return replaced by
\* one space and every other character as it was
Sanitized(text, clean) ==
    /\ Len(clean) = Len(text)
    /\ \A k \in DOMAIN text :
          clean[k] = (IF text[k] = FF \/ text[k] = LF \/ text[k] = CR THEN " " ELSE text[k])

\* C16: extractEnglishFlavor returns the text of the first entry tagged "en",
\* with each form feed, newline and carriage return replaced by one space, and
\* absent when no entry is tagged "en".
C16_FirstEnglishFlavorSanitized ==
    (mapIn.kind = "flavor" /\ mapOut # None) =>
        LET entries == mapIn.value.flavor_text_entries
        IN  IF EnglishEntries(entries) = {} THEN mapOut[1] = None
            ELSE /\ mapOut[1] # None
                 /\ \E k \in EnglishEntries(entries) :
                       /\ \A h \in EnglishEntries(entries) : k <= h
                       /\ Sanitized(entries[k].flavor_text, mapOut[1][1])

\* a French entry comes first, the English entry holds "Abc\fdef\n": the
\* result is "Abc def "
C16_Witness ==
    /\ mapIn.kind = "flavor" /\ mapOut # None
    /\ Len(mapIn.value.flavor_text_entries) = 2
    /\ mapIn.value.flavor_text_entries[1].language.name = "fr"
    /\ mapIn.value.flavor_text_entries[2].language.name = "en"
    /\ mapIn.value.flavor_text_entries[2].flavor_text = <<"A", "b", "c", FF, "d", "e", "f", LF>>
    /\ mapOut[1] = Some(<<"A", "b", "c", " ", "d", "e", "f", " ">>)

(***************************************************************************)
(* Claim about the App component (specification SpecList)                  *)
(***************************************************************************)
\* C17 as stated: the rendered App shows a heading whose name matches
\* "pokemon query", ignoring case.
C17_AsStated == \E h \in RenderedHeadings : MatchesIgnoringCase(h, HeadingPattern)

(***************************************************************************)
(* More claims about the cache (specification SpecCache)                   *)
(***************************************************************************)
\* another call for the key of req is waiting for its response
InFlight(req) == \E b \in Calls : calls[b].pc = "net" /\ KeyOf(calls[b].req) = KeyOf(req)

\* C18: a getCached call that starts while another call for the same key is
\* in flight and no fresh entry exists issues its own network call; every
\* successful response writes the entry, replacing the one an earlier
\* response wrote, so the entry left is that of the response that arrived last.
C18_NoInFlightDeduplication ==
    [][\A c \in Calls :
        /\ (CallStarts(c) /\ InFlight(calls'[c].req)
               /\ ~(KeyOf(calls'[c].req) \in DOMAIN cache
                    /\ now - cache[KeyOf(calls'[c].req)].timestamp < calls'[c].ttl))
           => (netCalls' = netCalls + 1 /\ calls'[c].pc = "net" /\ calls'[c].net = 1)
        /\ (CallSettles(c) /\ calls'[c].result[1].ok)
           => /\ cache'[KeyOf(calls[c].req)].data = calls'[c].result[1].data
              /\ \A k \in DOMAIN cache : k # KeyOf(calls[c].req) => cache'[k] = cache[k]
      ]_vars

\* two calls for one key overlapped (the clock has not moved, yet both went to
\* the network) and got different payloads; the entry is the first call's,
\* whose response arrived after the second call's
C18_Witness ==
    /\ now = 0 /\ netCalls = 2
    /\ calls[1].pc = "done" /\ calls[2].pc = "done"
    /\ calls[1].req = calls[2].req
    /\ calls[1].net = 1 /\ calls[2].net = 1
    /\ calls[1].result[1].ok /\ calls[2].result[1].ok
    /\ calls[1].result # calls[2].result
    /\ cache[KeyOf(calls[1].req)].data = calls[1].result[1].data

(***************************************************************************)
(* Claims about expiry (specification SpecTtl)                             *)
(***************************************************************************)
\* C19: a getCached call returns without a network call only if the entry of
\* its key is younger than the call's own ttl, and then returns that entry's
\* payload; a call that finds the entry aged ttl or more leaves the table as
\* it is; an entry, once stored, stays in the table and changes only when a
\* successful response for its key overwrites it.
C19_ExpiryIsLazy ==
    [][/\ \A c \in Calls :
            /\ (CallStarts(c) /\ netCalls' = netCalls) =>
                  /\ KeyOf(calls'[c].req) \in DOMAIN cache
                  /\ now - cache[KeyOf(calls'[c].req)].timestamp < calls'[c].ttl
                  /\ calls'[c].result =
                        Some([ok |-> TRUE, data |-> cache[KeyOf(calls'[c].req)].data])
            /\ (CallStarts(c) /\ KeyOf(calls'[c].req) \in DOMAIN cache
                   /\ now - cache[KeyOf(calls'[c].req)].timestamp >= calls'[c].ttl) =>
                  /\ netCalls' = netCalls + 1
                  /\ cache' = cache
       /\ \A k \in DOMAIN cache :
            /\ k \in DOMAIN cache'
            /\ cache'[k] # cache[k] =>
                  \E c \in Calls : CallSettles(c) /\ calls'[c].result[1].ok /\ KeyOf(calls[c].req) = k
      ]_vars

\* with the entry aged exactly the shorter ttl, a call with that ttl went to
\* the network and failed, the entry is still the old one, and a call with the
\* default ttl was then served from it
C19_Witness ==
    /\ now = DEFAULT_TTL - 1
    /\ \A c \in Calls : calls[c].pc = "done" /\ calls[c].req = calls[1].req
    /\ calls[1].net = 1 /\ calls[1].result[1].ok
    /\ calls[2].ttl = DEFAULT_TTL - 1 /\ calls[2].net = 1 /\ ~calls[2].result[1].ok
    /\ calls[3].ttl = DEFAULT_TTL /\ calls[3].net = 0
    /\ calls[3].result = calls[1].result
    /\ cache[KeyOf(calls[1].req)].timestamp = 0

(***************************************************************************)
(* Claims about a failing loadList (specification Spec)                    *)
(***************************************************************************)
LoadFails(i) == LoadEnds(i) /\ loads'[i].outcome = "failed"
\* invocation i takes a step
StepsOf(i) == loads'[i] # loads[i]

\* C20: the step in which a loadList fails stores the failure's message in
\* listError; no step of a loadList invocation other than its successful end
\* changes list, totalCount, summariesById or detailsById, so a failed
\* invocation leaves the four as they were.
C20_FailedLoadLeavesState ==
    [][\A i \in Loads :
        /\ LoadFails(i) =>
              /\ listError' # None
              /\ listError'[1] \in Faults \cup {NotFoundError}
        /\ (StepsOf(i) /\ ~LoadSucceeds(i)) =>
              /\ list' = list /\ totalCount' = totalCount
              /\ summariesById' = summariesById /\ detailsById' = detailsById
      ]_vars

\* a loadList failed while the maps held entries merged by getSummary and
\* getDetail; the entries are there, the list is empty, the message is stored
C20_Witness ==
    \E i \in Loads :
        /\ loads[i].pc = "done" /\ loads[i].outcome = "failed"
        /\ \A h \in Loads : loads[h].outcome # "ok"
        /\ listError = Some(NetworkError)
        /\ list = <<>> /\ totalCount = 0
        /\ DOMAIN summariesById = PokemonIds
        /\ DOMAIN detailsById # {}

(***************************************************************************)
(* Claims about overlapping loadList invocations (specification SpecList)  *)
(***************************************************************************)
\* invocation i has passed the guard and has not returned
LoadRunning(i) == loads[i].pc \in {"index", "items"}

\* C21 as stated: isListLoading is true in every state in which some loadList
\* invocation has passed its guard and has not yet finished.
C21_AsStated == (\E i \in Loads : LoadRunning(i)) => isListLoading

\* C22 as stated: in every state a non-empty list implies that listError is
\* absent.
C22_AsStated == list # <<>> => listError = None

(***************************************************************************)
(* Claims about overlapping merges (specification Spec)                    *)
(***************************************************************************)
\* the ids of the summaries a successful loadList invocation returned
LoadedIds(i) ==
    {Resolve(RawList(loads[i].limit, loads[i].offset).results[k].name) :
        k \in 1..loads[i].committed}
SummaryDone(j) == sums[j].pc = "done" /\ sums[j].result[1].ok
DetailDone(j) == dets[j].pc = "done" /\ dets[j].result[1].ok
LoadDone(i) == loads[i].pc = "done" /\ loads[i].outcome = "ok"

\* C23: whatever the interleaving of getSummary, getDetail and loadList,
\* summariesById holds an entry for every id a successful call returned and
\* detailsById one for every id of a successful getDetail, and no step removes
\* a key from either map.
C23_NoMergeIsLost ==
    /\ [](/\ \A j \in Sums : SummaryDone(j) => sums[j].result[1].value.id \in DOMAIN summariesById
          /\ \A j \in Dets : DetailDone(j) =>
                /\ dets[j].result[1].value.id \in DOMAIN summariesById
                /\ dets[j].result[1].value.id \in DOMAIN detailsById
          /\ \A i \in Loads : LoadDone(i) => LoadedIds(i) \subseteq DOMAIN summariesById)
    /\ [][/\ DOMAIN summariesById \subseteq DOMAIN summariesById'
          /\ DOMAIN detailsById \subseteq DOMAIN detailsById']_vars

\* all calls have completed, a loadList, a getSummary and a getDetail with
\* success, and the getSummary overlapped the loadList: each request went to
\* the network, none was served from the cache
C23_Witness ==
    /\ \A i \in Loads : loads[i].pc = "done" /\ PendingIn(loads[i].items) = {}
    /\ \A j \in Sums : SummaryDone(j)
    /\ \A j \in DirectDets : DetailDone(j) /\ PendingIn(dets[j].parts) = {}
    /\ \E i \in Loads : LoadDone(i) /\ loads[i].committed = Len(Names)
    /\ netCalls = 1 + Len(Names) + MaxSummaryCalls + 2 * MaxDetailCalls
    /\ DOMAIN summariesById = PokemonIds
    /\ DOMAIN detailsById = {Resolve(a) : a \in DetailArgs}

(***************************************************************************)
(* Claims about the effect runs of one DetailPage (specification SpecPage) *)
(***************************************************************************)
\* effect run j starts in this step, or its getDetail settles in this step
EffectStarts(j) == dets[j].pc = "new" /\ dets'[j].pc # "new"
EffectSettles(j) == dets[j].pc # "done" /\ dets'[j].pc = "done"
\* run j is the active one: it is not cleaned up once this step's effect ran
Active(j) == isMounted'[j]

\* C24: the settling of a getDetail call whose effect run has been cleaned up,
\* with success or failure, changes none of detail, error and isLoading; the
\* page's state changes only when the active run starts or its call settles,
\* and detail is only ever set to the result of the active run's call.
C24_OnlyActiveEffectSetsPage ==
    [][/\ \A j \in Dets : (EffectSettles(j) /\ ~Active(j)) => page' = page
       /\ page' # page => \E j \in Dets : Active(j) /\ (EffectStarts(j) \/ EffectSettles(j))
       /\ (page'.detail # page.detail /\ page'.detail # None) =>
             \E j \in Dets : /\ Active(j) /\ EffectSettles(j)
                             /\ dets'[j].result[1].ok
                             /\ page'.detail = Some(dets'[j].result[1].value)
      ]_vars

\* the route parameter changed while the first call was in flight; the first
\* call then succeeded, the second is still loading and the page shows nothing
\* of the first
C24_Witness ==
    /\ dets[1].pc = "done" /\ dets[1].result[1].ok
    /\ dets[1].result[1].value.id \in DOMAIN detailsById
    /\ ~isMounted[1] /\ isMounted[2]
    /\ dets[2].pc = "net" /\ dets[2].idOrName # dets[1].idOrName
    /\ page = [detail |-> None, isLoading |-> TRUE, error |-> None]
====
